---- MODULE Spec2Model ----
(***************************************************************************)
(* Model of qfsadmin (src/cc/tools/qfsadmin_main.cc): the registry of meta *)
(* server admin commands, the option parsing of Main, the usage path, the  *)
(* setup of MonClient and the sequential command dispatch loop.            *)
(*                                                                         *)
(* C strings are sequences of char values (-128..127, char is signed);     *)
(* every string literal of the source appears as its char codes, with the  *)
(* text in the comment above it.  An output stream is the sequence of the  *)
(* chunks written to it, one chunk per output statement.                   *)
(***************************************************************************)
EXTENDS Integers, Sequences, FiniteSets, TLC

(* ------------------------------ bounds --------------------------------- *)
\* longest option list handed to getopt
MaxOpts == 3
\* longest list of positional command tokens
MaxTokens == 2

(* ------------------------- string helpers ------------------------------ *)
\* concatenation of a sequence of strings
RECURSIVE Concat(_)
Concat(ss) == IF ss = <<>> THEN <<>> ELSE Head(ss) \o Concat(Tail(ss))

\* last element of a non-empty sequence
Last(s) == s[Len(s)]

\* a char seen as unsigned char
UChar(c) == c % 256

\* an int converted to (signed) char
ToChar(x) == IF x % 256 > 127 THEN (x % 256) - 256 ELSE x % 256

\* tolower() of the "C" locale on 0..255
tolower(x) == IF x >= 65 /\ x <= 90 THEN x + 32 ELSE x

\* variant of ToLower: the string is returned as it is
ToLowerIdentity(inStr) == inStr

\* ToLower: every char c of inStr replaced by (char)tolower(c & 0xFF)
ToLower(inStr) == [k \in 1..Len(inStr) |-> ToChar(tolower(UChar(inStr[k])))]

\* std::string operator< : lexicographic, chars compared as unsigned char
RECURSIVE StrLess(_, _)
StrLess(a, b) ==
    IF b = <<>> THEN FALSE
    ELSE IF a = <<>> THEN TRUE
    ELSE IF UChar(Head(a)) # UChar(Head(b)) THEN UChar(Head(a)) < UChar(Head(b))
    ELSE StrLess(Tail(a), Tail(b))

\* the keys of a std::map in iteration order (ascending by operator<)
RECURSIVE SortedKeys(_)
SortedKeys(S) ==
    IF S = {} THEN <<>>
    ELSE LET m == CHOOSE x \in S : \A y \in S \ {x} : StrLess(x, y)
         IN  <<m>> \o SortedKeys(S \ {m})

\* setw(w) << s : s padded on the left with spaces up to width w
SetW(w, s) == [k \in 1..(IF w > Len(s) THEN w - Len(s) ELSE 0) |-> 32] \o s

\* atoi: optional white space, optional sign, then decimal digits
IsSpace(c) == c = 32 \/ (c >= 9 /\ c <= 13)

IsDigit(c) == c >= 48 /\ c <= 57

RECURSIVE SkipSpace(_)
SkipSpace(s) == IF s # <<>> /\ IsSpace(Head(s)) THEN SkipSpace(Tail(s)) ELSE s

RECURSIVE AtoiDigits(_, _)
AtoiDigits(s, acc) ==
    IF s # <<>> /\ IsDigit(Head(s))
    THEN AtoiDigits(Tail(s), acc * 10 + (Head(s) - 48))
    ELSE acc

atoi(str) ==
    LET s == SkipSpace(str)
    IN  IF s # <<>> /\ Head(s) = 45 THEN 0 - AtoiDigits(Tail(s), 0)
        ELSE IF s # <<>> /\ Head(s) = 43 THEN AtoiDigits(Tail(s), 0)
        ELSE AtoiDigits(s, 0)

(* ----------------------------- pointers -------------------------------- *)
\* a null const char*
NULL == <<>>

\* a non-null const char* pointing at the string s
Ptr(s) == <<s>>

\* the string a non-null pointer points at
Deref(p) == p[1]

(* ------------------------- the command catalog ------------------------- *)
\* KfsForEachMetaOpId: the list of (name, comment), in the order of the macro;
\* name is the stringized identifier #name
\* "CHECK_LEASES", "debug: run chunk leases check"
\* "RECOMPUTE_DIRSIZE", "debug: recompute directories sizes"
\* "DUMP_CHUNKTOSERVERMAP", "create chunk server to chunk id map file used by
\*     the off line re-balance utility and layout emulator"
\* "DUMP_CHUNKREPLICATIONCANDIDATES", "debug: list content of the chunks
\*     re-replication and recovery queues"
\* "OPEN_FILES", "debug: list all chunk leases"
\* "GET_CHUNK_SERVERS_COUNTERS", "stats: output chunk server counters"
\* "GET_CHUNK_SERVER_DIRS_COUNTERS", "stats: output chunk directories counters"
\* "GET_REQUEST_COUNTERS", "stats: get meta server request counters"
KfsForEachMetaOpId == <<
    [name |-> <<67, 72, 69, 67, 75, 95, 76, 69, 65, 83, 69, 83>>,
     comment |-> <<100, 101, 98, 117, 103, 58, 32, 114, 117, 110, 32, 99, 104, 117, 110, 107, 32, 108, 101, 97, 115, 101, 115, 32, 99, 104, 101, 99, 107>>],
    [name |-> <<82, 69, 67, 79, 77, 80, 85, 84, 69, 95, 68, 73, 82, 83, 73, 90, 69>>,
     comment |-> <<100, 101, 98, 117, 103, 58, 32, 114, 101, 99, 111, 109, 112, 117, 116, 101, 32, 100, 105, 114, 101, 99, 116, 111, 114, 105, 101, 115, 32, 115, 105, 122, 101, 115>>],
    [name |-> <<68, 85, 77, 80, 95, 67, 72, 85, 78, 75, 84, 79, 83, 69, 82, 86, 69, 82, 77, 65, 80>>,
     comment |-> <<99, 114, 101, 97, 116, 101, 32, 99, 104, 117, 110, 107, 32, 115, 101, 114, 118, 101, 114, 32, 116, 111, 32, 99, 104, 117, 110, 107, 32, 105, 100, 32, 109, 97, 112, 32, 102, 105, 108, 101, 32, 117, 115, 101, 100, 32, 98, 121, 32, 116, 104, 101, 32, 111, 102, 102, 32, 108, 105, 110, 101, 32, 114, 101, 45, 98, 97, 108, 97, 110, 99, 101, 32, 117, 116, 105, 108, 105, 116, 121, 32, 97, 110, 100, 32, 108, 97, 121, 111, 117, 116, 32, 101, 109, 117, 108, 97, 116, 111, 114>>],
    [name |-> <<68, 85, 77, 80, 95, 67, 72, 85, 78, 75, 82, 69, 80, 76, 73, 67, 65, 84, 73, 79, 78, 67, 65, 78, 68, 73, 68, 65, 84, 69, 83>>,
     comment |-> <<100, 101, 98, 117, 103, 58, 32, 108, 105, 115, 116, 32, 99, 111, 110, 116, 101, 110, 116, 32, 111, 102, 32, 116, 104, 101, 32, 99, 104, 117, 110, 107, 115, 32, 114, 101, 45, 114, 101, 112, 108, 105, 99, 97, 116, 105, 111, 110, 32, 97, 110, 100, 32, 114, 101, 99, 111, 118, 101, 114, 121, 32, 113, 117, 101, 117, 101, 115>>],
    [name |-> <<79, 80, 69, 78, 95, 70, 73, 76, 69, 83>>,
     comment |-> <<100, 101, 98, 117, 103, 58, 32, 108, 105, 115, 116, 32, 97, 108, 108, 32, 99, 104, 117, 110, 107, 32, 108, 101, 97, 115, 101, 115>>],
    [name |-> <<71, 69, 84, 95, 67, 72, 85, 78, 75, 95, 83, 69, 82, 86, 69, 82, 83, 95, 67, 79, 85, 78, 84, 69, 82, 83>>,
     comment |-> <<115, 116, 97, 116, 115, 58, 32, 111, 117, 116, 112, 117, 116, 32, 99, 104, 117, 110, 107, 32, 115, 101, 114, 118, 101, 114, 32, 99, 111, 117, 110, 116, 101, 114, 115>>],
    [name |-> <<71, 69, 84, 95, 67, 72, 85, 78, 75, 95, 83, 69, 82, 86, 69, 82, 95, 68, 73, 82, 83, 95, 67, 79, 85, 78, 84, 69, 82, 83>>,
     comment |-> <<115, 116, 97, 116, 115, 58, 32, 111, 117, 116, 112, 117, 116, 32, 99, 104, 117, 110, 107, 32, 100, 105, 114, 101, 99, 116, 111, 114, 105, 101, 115, 32, 99, 111, 117, 110, 116, 101, 114, 115>>],
    [name |-> <<71, 69, 84, 95, 82, 69, 81, 85, 69, 83, 84, 95, 67, 79, 85, 78, 84, 69, 82, 83>>,
     comment |-> <<115, 116, 97, 116, 115, 58, 32, 103, 101, 116, 32, 109, 101, 116, 97, 32, 115, 101, 114, 118, 101, 114, 32, 114, 101, 113, 117, 101, 115, 116, 32, 99, 111, 117, 110, 116, 101, 114, 115>>] >>

\* CMD_META_##name : the KfsOp_t enumerator the token pasting names
CmdMeta(name) == <<"CMD_META", name>>

\* sOps[theName] = make_pair(#name, make_pair(CMD_META_##name, comment))
MapPut(ops, key, val) == [k \in (DOMAIN ops) \cup {key} |-> IF k = key THEN val ELSE ops[k]]

\* variant of InsertAdminOpEntry: the entry is stored under #name itself
InsertAdminOpEntryRawKey(st, e) ==
    [ops    |-> MapPut(st.ops, e.name,
                       [name |-> e.name, op |-> CmdMeta(e.name), comment |-> e.comment]),
     maxLen |-> IF st.maxLen < Len(e.name) THEN Len(e.name) ELSE st.maxLen]

\* one expansion of InsertAdminOpEntry(name, comment) on (sOps, sMaxCmdNameLen)
InsertAdminOpEntry(st, e) ==
    LET theName == ToLower(e.name)
    IN  [ops    |-> MapPut(st.ops, theName,
                       [name |-> e.name, op |-> CmdMeta(e.name), comment |-> e.comment]),
         maxLen |-> IF st.maxLen < Len(theName) THEN Len(theName) ELSE st.maxLen]

RECURSIVE InsertAll(_, _)
InsertAll(st, es) ==
    IF es = <<>> THEN st ELSE InsertAll(InsertAdminOpEntry(st, Head(es)), Tail(es))

\* the empty std::map
EmptyMap == [k \in {} |-> <<>>]

\* MakeMetaAdminOpsMap on the statics (ops, maxLen): fills the map only when
\* it is empty
MakeMetaAdminOpsMap(st) ==
    IF DOMAIN st.ops = {}
    THEN InsertAll([ops |-> EmptyMap, maxLen |-> 0], KfsForEachMetaOpId)
    ELSE st

\* sMetaAdminOpsMap.find(key): the key when present, NULL for end()
Find(ops, key) == IF key \in DOMAIN ops THEN Ptr(key) ELSE NULL

(* ------------------------- string literals ----------------------------- *)
\* "no such command: "
StrNoSuchCommand == <<110, 111, 32, 115, 117, 99, 104, 32, 99, 111, 109, 109, 97, 110, 100, 58, 32>>

\* "\n"
StrNL == <<10>>

\* " -- "
StrDashes == <<32, 45, 45, 32>>

\* " OK\n"
StrOK == <<32, 79, 75, 10>>

\* " error: "
StrError == <<32, 101, 114, 114, 111, 114, 58, 32>>

\* "Usage: "
StrUsage == <<85, 115, 97, 103, 101, 58, 32>>

\* "\n -m|-s <meta server host name>\n -p <port>\n -f <config file name>\n"
\* " [-v]\n --  <cmd> <cmd> ...Where cmd is one of the following:\n"
StrUsageTail == <<10, 32, 45, 109, 124, 45, 115, 32, 60, 109, 101, 116, 97, 32, 115, 101, 114, 118, 101, 114, 32, 104, 111, 115, 116, 32, 110, 97, 109, 101, 62, 10, 32, 45, 112, 32, 60, 112, 111, 114, 116, 62, 10, 32, 45, 102, 32, 60, 99, 111, 110, 102, 105, 103, 32, 102, 105, 108, 101, 32, 110, 97, 109, 101, 62, 10, 32, 91, 45, 118, 93, 10, 32, 45, 45, 32, 32, 60, 99, 109, 100, 62, 32, 60, 99, 109, 100, 62, 32, 46, 46, 46, 87, 104, 101, 114, 101, 32, 99, 109, 100, 32, 105, 115, 32, 111, 110, 101, 32, 111, 102, 32, 116, 104, 101, 32, 102, 111, 108, 108, 111, 119, 105, 110, 103, 58, 10>>

(* ------------------------------ inputs --------------------------------- *)
\* argv[0]: "qfsadmin"
ProgName == <<113, 102, 115, 97, 100, 109, 105, 110>>

\* a meta server host name: "meta"
ArgHost == <<109, 101, 116, 97>>

\* a config file name: "q.prp"
ArgCfg == <<113, 46, 112, 114, 112>>

\* port arguments: "20000" and "-1"
ArgPort == <<50, 48, 48, 48, 48>>

ArgPortNeg == <<45, 49>>

\* what one call of getopt(argc, argv, "hm:s:p:vf:") can return: the option
\* character and optarg; "?" is getopt's answer to an unrecognized option
OptSet ==
    { [c |-> "m", arg |-> Ptr(ArgHost)],
      [c |-> "s", arg |-> Ptr(ArgHost)],
      [c |-> "p", arg |-> Ptr(ArgPort)],
      [c |-> "p", arg |-> Ptr(ArgPortNeg)],
      [c |-> "h", arg |-> NULL],
      [c |-> "v", arg |-> NULL],
      [c |-> "f", arg |-> Ptr(ArgCfg)],
      [c |-> "?", arg |-> NULL] }

\* positional command tokens: "open_files", "Check_Leases", "bogus"
TokenSet ==
    { <<111, 112, 101, 110, 95, 102, 105, 108, 101, 115>>,
      <<67, 104, 101, 99, 107, 95, 76, 101, 97, 115, 101, 115>>,
      <<98, 111, 103, 117, 115>> }

\* sequences over S of length at most n
SeqsUpTo(S, n) == UNION { [1..k -> S] : k \in 0..n }

\* no two positions of s hold the same element
NoRepeat(s) == \A j, k \in 1..Len(s) : j # k => s[j] # s[k]

\* the option lists considered: each option of OptSet given at most once
OptLists == { s \in SeqsUpTo(OptSet, MaxOpts) : NoRepeat(s) }

\* what MonClient::Execute can hand back: its return value and the fields it
\* leaves in the op.  contentBuf holds at least contentLength chars whenever
\* contentLength is positive.  Content: "ab\n" and "x"; message: "boom"
ExecOutcomes ==
    { [ret |-> 0 - 5, statusMsg |-> <<98, 111, 111, 109>>, contentLength |-> 0, contentBuf |-> <<>>],
      [ret |-> 0 - 5, statusMsg |-> <<98, 111, 111, 109>>, contentLength |-> 2, contentBuf |-> <<97, 98, 10>>],
      [ret |-> 0, statusMsg |-> <<>>, contentLength |-> 0, contentBuf |-> <<>>],
      [ret |-> 0, statusMsg |-> <<>>, contentLength |-> 0 - 1, contentBuf |-> <<>>],
      [ret |-> 0, statusMsg |-> <<>>, contentLength |-> 2, contentBuf |-> <<97, 98, 10>>],
      [ret |-> 1, statusMsg |-> <<>>, contentLength |-> 1, contentBuf |-> <<120>>] }

\* what MonClient::SetParameters can return
SetParametersResults == {0 - 1, 0}

\* ErrorCodeToStr: the text of a status code; "Input/output error" for -5
ErrorCodeToStr(status) ==
    IF status = 0 THEN <<>>
    ELSE IF status = 0 - 5 THEN <<73, 110, 112, 117, 116, 47, 111, 117, 116, 112, 117, 116, 32, 101, 114, 114, 111, 114>>
    ELSE <<85, 110, 107, 110, 111, 119, 110, 32, 101, 114, 114, 111, 114>>

(* ------------------------------- state --------------------------------- *)
VARIABLES
    sOps,                   \* static MetaAdminOps sOps
    sMaxCmdNameLen,         \* static size_t sMaxCmdNameLen
    opts,                   \* the getopt results of this invocation, in order
    args,                   \* argv[optind..argc-1], the command tokens
    pc,                     \* where Main is
    optIdx,                 \* number of getopt calls made
    theHelpFlag,
    theServerPtr,
    theConfigFileNamePtr,
    thePort,
    theVerboseLoggingFlag,
    theRetCode,
    logLevel,               \* MsgLogger level, "none" before MsgLogger::Init
    setParameters,          \* "none", "ok" or "failed": theClient.SetParameters
    maxContentLength,       \* theClient's limit, 0 before SetMaxContentLength
    i,                      \* loop index, 1-based into args
    theOp,                  \* the MetaMonOp of the latest iteration that made one
    calls,                  \* the theClient.Execute calls made so far
    rets,                   \* the values those calls returned
    cout,
    cerr,
    log,                    \* messages given to KFS_LOG_STREAM_ERROR
    exitCode                \* <<>> while running, <<code>> after return

vars == <<sOps, sMaxCmdNameLen, opts, args, pc, optIdx, theHelpFlag,
          theServerPtr, theConfigFileNamePtr, thePort, theVerboseLoggingFlag,
          theRetCode, logLevel, setParameters, maxContentLength, i, theOp,
          calls, rets, cout, cerr, log, exitCode>>

\* const MetaAdminOps& sMetaAdminOpsMap = MakeMetaAdminOpsMap().first
sMetaAdminOpsMap == sOps

\* const size_t sMetaAdminOpMaxLen = MakeMetaAdminOpsMap().second
sMetaAdminOpMaxLen == sMaxCmdNameLen

\* the registry after static initialization: MakeMetaAdminOpsMap is called
\* once for sMetaAdminOpsMap and once more for sMetaAdminOpMaxLen
StaticInit ==
    MakeMetaAdminOpsMap(MakeMetaAdminOpsMap([ops |-> EmptyMap, maxLen |-> 0]))

\* MetaMonOp theOp(op, name) as constructed, before Execute
MetaMonOp(op, name) ==
    [op |-> op, name |-> name, statusMsg |-> <<>>, contentLength |-> 0,
     contentBuf |-> <<>>]

\* no op object exists outside an iteration that resolved its token
NoOp == [op |-> <<>>, name |-> <<>>, statusMsg |-> <<>>, contentLength |-> 0,
         contentBuf |-> <<>>]

\* ServerLocation theLocation(theServerPtr, thePort)
ServerLocation(host, port) == [hostname |-> Deref(host), port |-> port]

Init ==
    /\ sOps = StaticInit.ops
    /\ sMaxCmdNameLen = StaticInit.maxLen
    /\ opts \in OptLists
    /\ args \in SeqsUpTo(TokenSet, MaxTokens)
    /\ pc = "getopt"
    /\ optIdx = 0
    /\ theHelpFlag = FALSE
    /\ theServerPtr = NULL
    /\ theConfigFileNamePtr = NULL
    /\ thePort = 0 - 1
    /\ theVerboseLoggingFlag = FALSE
    /\ theRetCode = 0
    /\ logLevel = "none"
    /\ setParameters = "none"
    /\ maxContentLength = 0
    /\ i = 0
    /\ theOp = NoOp
    /\ calls = <<>>
    /\ rets = <<>>
    /\ cout = <<>>
    /\ cerr = <<>>
    /\ log = <<>>
    /\ exitCode = <<>>

(* --------------------------- option parsing ---------------------------- *)
\* variant of OptSwitch: the default case leaves theRetCode alone
OptSwitchDefaultIgnored(loc, o) ==
    IF o.c = "m" \/ o.c = "s" THEN [loc EXCEPT !.server = o.arg]
    ELSE IF o.c = "p" THEN [loc EXCEPT !.port = atoi(Deref(o.arg))]
    ELSE IF o.c = "h" THEN [loc EXCEPT !.help = TRUE]
    ELSE IF o.c = "v" THEN [loc EXCEPT !.verbose = TRUE]
    ELSE IF o.c = "f" THEN [loc EXCEPT !.cfg = o.arg]
    ELSE loc

\* the switch on theOptChar: the locals after one option
OptSwitch(loc, o) ==
    IF o.c = "m" \/ o.c = "s" THEN [loc EXCEPT !.server = o.arg]
    ELSE IF o.c = "p" THEN [loc EXCEPT !.port = atoi(Deref(o.arg))]
    ELSE IF o.c = "h" THEN [loc EXCEPT !.help = TRUE]
    ELSE IF o.c = "v" THEN [loc EXCEPT !.verbose = TRUE]
    ELSE IF o.c = "f" THEN [loc EXCEPT !.cfg = o.arg]
    ELSE [loc EXCEPT !.ret = 1]

\* one iteration of the getopt loop
GetOpt ==
    /\ pc = "getopt"
    /\ optIdx < Len(opts)
    /\ LET loc == OptSwitch([server |-> theServerPtr, port |-> thePort,
                             help |-> theHelpFlag, verbose |-> theVerboseLoggingFlag,
                             cfg |-> theConfigFileNamePtr, ret |-> theRetCode],
                            opts[optIdx + 1])
       IN  /\ theServerPtr' = loc.server
           /\ thePort' = loc.port
           /\ theHelpFlag' = loc.help
           /\ theVerboseLoggingFlag' = loc.verbose
           /\ theConfigFileNamePtr' = loc.cfg
           /\ theRetCode' = loc.ret
    /\ optIdx' = optIdx + 1
    /\ UNCHANGED <<sOps, sMaxCmdNameLen, opts, args, pc, logLevel, setParameters,
                   maxContentLength, i, theOp, calls, rets, cout, cerr, log,
                   exitCode>>

\* getopt returns -1: the loop ends
GetOptEnd ==
    /\ pc = "getopt"
    /\ optIdx = Len(opts)
    /\ pc' = "parsed"
    /\ UNCHANGED <<sOps, sMaxCmdNameLen, opts, args, optIdx, theHelpFlag,
                   theServerPtr, theConfigFileNamePtr, thePort,
                   theVerboseLoggingFlag, theRetCode, logLevel, setParameters,
                   maxContentLength, i, theOp, calls, rets, cout, cerr, log,
                   exitCode>>

(* ------------------------------ usage ---------------------------------- *)
\* variant of UsageCond: the port is not examined
UsageCondNoPort(help, server, port) == help \/ server = NULL

\* if (theHelpFlag || ! theServerPtr || thePort < 0)
UsageCond(help, server, port) == help \/ server = NULL \/ port < 0

\* variant of UsageRetCode: help always returns 0
UsageRetCodeHelpZero(help, retCode) == IF help THEN 0 ELSE 1

\* return (theHelpFlag ? theRetCode : 1)
UsageRetCode(help, retCode) == IF help THEN retCode ELSE 1

\* the usage banner
UsageBanner(prog) == Concat(<<StrUsage, prog, StrUsageTail>>)

\* one line of the listing of CmdHelp(0)
HelpLine(ops, width, key) ==
    Concat(<<SetW(width, key), StrDashes, ops[key].comment, StrNL>>)

\* CmdHelp: what it writes to cout and to cerr
CmdHelp(ops, width, inNamePtr) ==
    IF inNamePtr # NULL
    THEN LET theIt == Find(ops, ToLower(Deref(inNamePtr)))
         IN  IF theIt = NULL
             THEN [out |-> <<>>,
                   err |-> <<Concat(<<StrNoSuchCommand, Deref(inNamePtr), StrNL>>)>>]
             ELSE [out |-> <<Concat(<<Deref(theIt), StrDashes,
                                      ops[Deref(theIt)].comment, StrNL>>)>>,
                   err |-> <<>>]
    ELSE LET keys == SortedKeys(DOMAIN ops)
         IN  [out |-> [k \in 1..Len(keys) |-> HelpLine(ops, width, keys[k])],
              err |-> <<>>]

\* the usage branch of Main: banner, CmdHelp(0), return
Usage ==
    /\ pc = "parsed"
    /\ UsageCond(theHelpFlag, theServerPtr, thePort)
    /\ LET help == CmdHelp(sMetaAdminOpsMap, sMetaAdminOpMaxLen, NULL)
           banner == UsageBanner(ProgName)
       IN  /\ cout' = (IF theHelpFlag THEN Append(cout, banner) ELSE cout) \o help.out
           /\ cerr' = (IF theHelpFlag THEN cerr ELSE Append(cerr, banner)) \o help.err
    /\ exitCode' = <<UsageRetCode(theHelpFlag, theRetCode)>>
    /\ pc' = "done"
    /\ UNCHANGED <<sOps, sMaxCmdNameLen, opts, args, optIdx, theHelpFlag,
                   theServerPtr, theConfigFileNamePtr, thePort,
                   theVerboseLoggingFlag, theRetCode, logLevel, setParameters,
                   maxContentLength, i, theOp, calls, rets, log>>

(* ------------------------------ setup ---------------------------------- *)
\* MsgLogger::Init(0, theVerboseLoggingFlag ? kLogLevelDEBUG : kLogLevelINFO)
MsgLoggerLevel(verbose) == IF verbose THEN "DEBUG" ELSE "INFO"

\* 512 << 20
MaxContentLength == 512 * 1048576

\* variant of Setup: the result of SetParameters is not checked
SetupUnchecked ==
    /\ pc = "parsed"
    /\ ~(theHelpFlag \/ theServerPtr = NULL \/ thePort < 0)
    /\ logLevel' = (IF theVerboseLoggingFlag THEN "DEBUG" ELSE "INFO")
    /\ \E r \in SetParametersResults :
          setParameters' = (IF r < 0 THEN "failed" ELSE "ok")
    /\ maxContentLength' = 512 * 1048576
    /\ i' = 1
    /\ pc' = "loop"
    /\ UNCHANGED <<sOps, sMaxCmdNameLen, opts, args, optIdx, theHelpFlag,
                   theServerPtr, theConfigFileNamePtr, thePort,
                   theVerboseLoggingFlag, theRetCode, theOp, calls, rets,
                   cout, cerr, log, exitCode>>

\* logger set up, theLocation and theClient constructed, SetParameters
\* called and its result checked; on success SetMaxContentLength and the
\* loop starts at optind
Setup ==
    /\ pc = "parsed"
    /\ ~UsageCond(theHelpFlag, theServerPtr, thePort)
    /\ logLevel' = MsgLoggerLevel(theVerboseLoggingFlag)
    /\ \E r \in SetParametersResults :
          IF r < 0
          THEN /\ setParameters' = "failed"
               /\ exitCode' = <<1>>
               /\ pc' = "done"
               /\ UNCHANGED <<maxContentLength, i>>
          ELSE /\ setParameters' = "ok"
               /\ maxContentLength' = MaxContentLength
               /\ i' = 1
               /\ pc' = "loop"
               /\ UNCHANGED exitCode
    /\ UNCHANGED <<sOps, sMaxCmdNameLen, opts, args, optIdx, theHelpFlag,
                   theServerPtr, theConfigFileNamePtr, thePort,
                   theVerboseLoggingFlag, theRetCode, theOp, calls, rets,
                   cout, cerr, log>>

(* ------------------------- the dispatch loop --------------------------- *)
\* sMetaAdminOpsMap.find(ToLower(inArgsPtr[i]))
Lookup(ops, token) == Find(ops, ToLower(token))

\* cerr << "no such command: " << inArgsPtr[i] << "\n"
NoSuchCommand(token) == Concat(<<StrNoSuchCommand, token, StrNL>>)

\* variant of CmdUnknown: the loop is left at the first unknown token
CmdUnknownBreaks ==
    /\ pc = "loop"
    /\ i <= Len(args)
    /\ Find(sOps, ToLower(args[i])) = NULL
    /\ cerr' = Append(cerr, Concat(<<StrNoSuchCommand, args[i], StrNL>>))
    /\ i' = Len(args) + 1
    /\ UNCHANGED <<sOps, sMaxCmdNameLen, opts, args, pc, optIdx, theHelpFlag,
                   theServerPtr, theConfigFileNamePtr, thePort,
                   theVerboseLoggingFlag, theRetCode, logLevel, setParameters,
                   maxContentLength, theOp, calls, rets, cout, log, exitCode>>

\* variant of CmdUnknown: the token after the unknown one is passed over
CmdUnknownSkipsNext ==
    /\ pc = "loop"
    /\ i <= Len(args)
    /\ Find(sOps, ToLower(args[i])) = NULL
    /\ cerr' = Append(cerr, Concat(<<StrNoSuchCommand, args[i], StrNL>>))
    /\ i' = i + 2
    /\ UNCHANGED <<sOps, sMaxCmdNameLen, opts, args, pc, optIdx, theHelpFlag,
                   theServerPtr, theConfigFileNamePtr, thePort,
                   theVerboseLoggingFlag, theRetCode, logLevel, setParameters,
                   maxContentLength, theOp, calls, rets, cout, log, exitCode>>

\* the token does not resolve: the message, then the next token
CmdUnknown ==
    /\ pc = "loop"
    /\ i <= Len(args)
    /\ Lookup(sMetaAdminOpsMap, args[i]) = NULL
    /\ cerr' = Append(cerr, NoSuchCommand(args[i]))
    /\ i' = i + 1
    /\ UNCHANGED <<sOps, sMaxCmdNameLen, opts, args, pc, optIdx, theHelpFlag,
                   theServerPtr, theConfigFileNamePtr, thePort,
                   theVerboseLoggingFlag, theRetCode, logLevel, setParameters,
                   maxContentLength, theOp, calls, rets, cout, log, exitCode>>

\* variant of CmdExecute: the op is named by the key of the entry
CmdExecuteKeyName ==
    /\ pc = "loop"
    /\ i <= Len(args)
    /\ Find(sOps, ToLower(args[i])) # NULL
    /\ LET theIt == ToLower(args[i])
           op    == [op |-> sOps[theIt].op, name |-> theIt, statusMsg |-> <<>>,
                     contentLength |-> 0, contentBuf |-> <<>>]
       IN  /\ theOp' = op
           /\ calls' = Append(calls, [location |-> [hostname |-> theServerPtr[1], port |-> thePort],
                                      op |-> op.op, name |-> op.name, arg |-> i])
    /\ pc' = "execute"
    /\ UNCHANGED <<sOps, sMaxCmdNameLen, opts, args, optIdx, theHelpFlag,
                   theServerPtr, theConfigFileNamePtr, thePort,
                   theVerboseLoggingFlag, theRetCode, logLevel, setParameters,
                   maxContentLength, i, rets, cout, cerr, log, exitCode>>

\* variant of CmdExecute: the loop goes on without waiting for the call
CmdExecuteNoWait ==
    /\ pc = "loop"
    /\ i <= Len(args)
    /\ Find(sOps, ToLower(args[i])) # NULL
    /\ LET theIt == ToLower(args[i])
           op    == [op |-> sOps[theIt].op, name |-> sOps[theIt].name,
                     statusMsg |-> <<>>, contentLength |-> 0, contentBuf |-> <<>>]
       IN  /\ theOp' = op
           /\ calls' = Append(calls, [location |-> [hostname |-> theServerPtr[1], port |-> thePort],
                                      op |-> op.op, name |-> op.name, arg |-> i])
    /\ i' = i + 1
    /\ UNCHANGED <<sOps, sMaxCmdNameLen, opts, args, pc, optIdx, theHelpFlag,
                   theServerPtr, theConfigFileNamePtr, thePort,
                   theVerboseLoggingFlag, theRetCode, logLevel, setParameters,
                   maxContentLength, rets, cout, cerr, log, exitCode>>

\* the token resolves: theOp is constructed from the entry and
\* theClient.Execute(theLocation, theOp) is called
CmdExecute ==
    /\ pc = "loop"
    /\ i <= Len(args)
    /\ Lookup(sMetaAdminOpsMap, args[i]) # NULL
    /\ LET theIt == Deref(Lookup(sMetaAdminOpsMap, args[i]))
           op    == MetaMonOp(sMetaAdminOpsMap[theIt].op, sMetaAdminOpsMap[theIt].name)
       IN  /\ theOp' = op
           /\ calls' = Append(calls, [location |-> ServerLocation(theServerPtr, thePort),
                                      op |-> op.op, name |-> op.name, arg |-> i])
    /\ pc' = "execute"
    /\ UNCHANGED <<sOps, sMaxCmdNameLen, opts, args, optIdx, theHelpFlag,
                   theServerPtr, theConfigFileNamePtr, thePort,
                   theVerboseLoggingFlag, theRetCode, logLevel, setParameters,
                   maxContentLength, i, rets, cout, cerr, log, exitCode>>

\* variant of ErrorMsg: the decoded status is left out
ErrorMsgNoCode(statusMsg, theRet) == statusMsg \o StrError

\* theOp.statusMsg << " error: " << ErrorCodeToStr(theRet)
ErrorMsg(statusMsg, theRet) == Concat(<<statusMsg, StrError, ErrorCodeToStr(theRet)>>)

\* variant of RetCodeAfter: a successful call clears the failure
RetCodeAfterClears(retCode, theRet) == IF theRet < 0 THEN 1 ELSE 0

\* theRetCode after a call that returned theRet
RetCodeAfter(retCode, theRet) == IF theRet < 0 THEN 1 ELSE retCode

\* variant of OkLine: the display name of the entry instead of its key
OkLineDisplayName(key) == [k \in 1..Len(key) |-> IF key[k] >= 97 /\ key[k] <= 122 THEN key[k] - 32 ELSE key[k]] \o StrOK

\* cout << theIt->first << " OK\n"
OkLine(key) == key \o StrOK

\* variant of ContentWrite: the whole buffer is written
ContentWriteWholeBuf(contentBuf, contentLength) == contentBuf

\* cout.write(theOp.contentBuf, theOp.contentLength)
ContentWrite(contentBuf, contentLength) == SubSeq(contentBuf, 1, contentLength)

\* what a successful call writes to cout
SuccessOutput(key, op) ==
    IF op.contentLength <= 0 THEN OkLine(key)
    ELSE ContentWrite(op.contentBuf, op.contentLength)

\* variant of ExecuteReturn: the result is printed after a failure too
ExecuteReturnPrintsAlways ==
    /\ pc = "execute"
    /\ \E o \in ExecOutcomes :
          LET op == [theOp EXCEPT !.statusMsg = o.statusMsg,
                                  !.contentLength = o.contentLength,
                                  !.contentBuf = o.contentBuf]
              theIt == ToLower(args[i])
          IN  /\ theOp' = op
              /\ rets' = Append(rets, o.ret)
              /\ theRetCode' = (IF o.ret < 0 THEN 1 ELSE theRetCode)
              /\ log' = (IF o.ret < 0
                         THEN Append(log, Concat(<<op.statusMsg, StrError, ErrorCodeToStr(o.ret)>>))
                         ELSE log)
              /\ cout' = Append(cout, IF op.contentLength <= 0 THEN theIt \o StrOK
                                      ELSE SubSeq(op.contentBuf, 1, op.contentLength))
    /\ i' = i + 1
    /\ pc' = "loop"
    /\ UNCHANGED <<sOps, sMaxCmdNameLen, opts, args, optIdx, theHelpFlag,
                   theServerPtr, theConfigFileNamePtr, thePort,
                   theVerboseLoggingFlag, logLevel, setParameters,
                   maxContentLength, calls, cerr, exitCode>>

\* theClient.Execute returns: the error is logged or the result printed,
\* then the next token
ExecuteReturn ==
    /\ pc = "execute"
    /\ \E o \in ExecOutcomes :
          LET op == [theOp EXCEPT !.statusMsg = o.statusMsg,
                                  !.contentLength = o.contentLength,
                                  !.contentBuf = o.contentBuf]
              theIt == Deref(Lookup(sMetaAdminOpsMap, args[i]))
          IN  /\ theOp' = op
              /\ rets' = Append(rets, o.ret)
              /\ theRetCode' = RetCodeAfter(theRetCode, o.ret)
              /\ IF o.ret < 0
                 THEN /\ log' = Append(log, ErrorMsg(op.statusMsg, o.ret))
                      /\ cout' = cout
                 ELSE /\ cout' = Append(cout, SuccessOutput(theIt, op))
                      /\ log' = log
    /\ i' = i + 1
    /\ pc' = "loop"
    /\ UNCHANGED <<sOps, sMaxCmdNameLen, opts, args, optIdx, theHelpFlag,
                   theServerPtr, theConfigFileNamePtr, thePort,
                   theVerboseLoggingFlag, logLevel, setParameters,
                   maxContentLength, calls, cerr, exitCode>>

\* the loop is over: return theRetCode
Return ==
    /\ pc = "loop"
    /\ i > Len(args)
    /\ exitCode' = <<theRetCode>>
    /\ pc' = "done"
    /\ UNCHANGED <<sOps, sMaxCmdNameLen, opts, args, optIdx, theHelpFlag,
                   theServerPtr, theConfigFileNamePtr, thePort,
                   theVerboseLoggingFlag, theRetCode, logLevel, setParameters,
                   maxContentLength, i, theOp, calls, rets, cout, cerr, log>>

Next ==
    \/ GetOpt
    \/ GetOptEnd
    \/ Usage
    \/ Setup
    \/ CmdUnknown
    \/ CmdExecute
    \/ ExecuteReturn
    \/ Return

(* ------------------- the lookup of one token, in isolation ------------- *)
\* s with its ASCII letters in lower case, in upper case, and alternating
LowerCased(s) == [k \in 1..Len(s) |-> IF s[k] >= 65 /\ s[k] <= 90 THEN s[k] + 32 ELSE s[k]]

UpperCased(s) == [k \in 1..Len(s) |-> IF s[k] >= 97 /\ s[k] <= 122 THEN s[k] - 32 ELSE s[k]]

MixedCased(s) == [k \in 1..Len(s) |-> IF k % 2 = 1 THEN UpperCased(s)[k] ELSE LowerCased(s)[k]]

\* tokens that are no case variant of a catalog name: "bogus", "open_file",
\* "open_filess", "OPEN?FILES", "open-files", "" and "open_files" with its
\* first char replaced by the char 0xEF
OtherTokens ==
    { <<98, 111, 103, 117, 115>>,
      <<111, 112, 101, 110, 95, 102, 105, 108, 101>>,
      <<111, 112, 101, 110, 95, 102, 105, 108, 101, 115, 115>>,
      <<79, 80, 69, 78, 63, 70, 73, 76, 69, 83>>,
      <<111, 112, 101, 110, 45, 102, 105, 108, 101, 115>>,
      <<>>,
      <<0 - 17>> \o <<112, 101, 110, 95, 102, 105, 108, 101, 115>> }

\* the tokens looked up: three case variants of every catalog name, and the
\* others
LookupTokens ==
    UNION { { LowerCased(KfsForEachMetaOpId[k].name),
              UpperCased(KfsForEachMetaOpId[k].name),
              MixedCased(KfsForEachMetaOpId[k].name) } :
            k \in 1..Len(KfsForEachMetaOpId) }
    \cup OtherTokens

\* Main at the head of the loop after "-m meta -p 20000" and a successful
\* SetParameters, with one token to look up
LookupInit ==
    /\ sOps = StaticInit.ops
    /\ sMaxCmdNameLen = StaticInit.maxLen
    /\ opts = << [c |-> "m", arg |-> Ptr(ArgHost)], [c |-> "p", arg |-> Ptr(ArgPort)] >>
    /\ args \in { <<t>> : t \in LookupTokens }
    /\ pc = "loop"
    /\ optIdx = 2
    /\ theHelpFlag = FALSE
    /\ theServerPtr = Ptr(ArgHost)
    /\ theConfigFileNamePtr = NULL
    /\ thePort = atoi(ArgPort)
    /\ theVerboseLoggingFlag = FALSE
    /\ theRetCode = 0
    /\ logLevel = MsgLoggerLevel(FALSE)
    /\ setParameters = "ok"
    /\ maxContentLength = MaxContentLength
    /\ i = 1
    /\ theOp = NoOp
    /\ calls = <<>>
    /\ rets = <<>>
    /\ cout = <<>>
    /\ cerr = <<>>
    /\ log = <<>>
    /\ exitCode = <<>>

LookupNext ==
    \/ CmdUnknown
    \/ CmdExecute
    \/ ExecuteReturn
    \/ Return

LookupSpec == LookupInit /\ [][LookupNext]_vars

(* --------------------- the dispatch loop, in isolation ----------------- *)
\* Main at the head of the loop after "-m meta -p 20000" and a successful
\* SetParameters, with the command tokens still to handle
DispatchInit ==
    /\ sOps = StaticInit.ops
    /\ sMaxCmdNameLen = StaticInit.maxLen
    /\ opts = << [c |-> "m", arg |-> Ptr(ArgHost)], [c |-> "p", arg |-> Ptr(ArgPort)] >>
    /\ args \in SeqsUpTo(TokenSet, MaxTokens)
    /\ pc = "loop"
    /\ optIdx = 2
    /\ theHelpFlag = FALSE
    /\ theServerPtr = Ptr(ArgHost)
    /\ theConfigFileNamePtr = NULL
    /\ thePort = atoi(ArgPort)
    /\ theVerboseLoggingFlag = FALSE
    /\ theRetCode = 0
    /\ logLevel = MsgLoggerLevel(FALSE)
    /\ setParameters = "ok"
    /\ maxContentLength = MaxContentLength
    /\ i = 1
    /\ theOp = NoOp
    /\ calls = <<>>
    /\ rets = <<>>
    /\ cout = <<>>
    /\ cerr = <<>>
    /\ log = <<>>
    /\ exitCode = <<>>

DispatchNext ==
    \/ CmdUnknown
    \/ CmdExecute
    \/ ExecuteReturn
    \/ Return

\* the loop with every step of Main eventually taken: the process is
\* scheduled and every remote call returns
FairDispatchSpec == DispatchInit /\ [][DispatchNext]_vars /\ WF_vars(DispatchNext)

Spec == Init /\ [][Next]_vars

\* every step of Main is eventually taken (the process is scheduled and
\* every remote call returns)
FairSpec == Spec /\ WF_vars(Next)

TypeOK ==
    /\ pc \in {"getopt", "parsed", "loop", "execute", "done"}
    /\ theRetCode \in {0, 1}
    /\ exitCode \in {<<>>, <<0>>, <<1>>}
    /\ Len(rets) <= Len(calls)

(* ======================= properties of Main ============================ *)
\* an unrecognized option was supplied
BadOpt == \E k \in 1..Len(opts) : opts[k].c = "?"

\* the token names an entry of the catalog, whatever its case
Resolved(token) ==
    \E k \in 1..Len(KfsForEachMetaOpId) :
        ToLower(KfsForEachMetaOpId[k].name) = ToLower(token)

\* the indices 1..n of args, in order
Indices(n) == [k \in 1..n |-> k]

\* the indices among 1..n of the tokens that resolve, and of those that do not
ResolvedIdx(n) == SelectSeq(Indices(n), LAMBDA k : Resolved(args[k]))

UnresolvedIdx(n) == SelectSeq(Indices(n), LAMBDA k : ~Resolved(args[k]))

\* Main returned from the end of the dispatch loop
LoopDone == pc = "done" /\ setParameters = "ok"

\* Main returned from the usage branch
UsageDone == pc = "done" /\ setParameters = "none"

\* this step is the return of a remote call
IsExecuteReturn == pc = "execute" /\ Len(rets') = Len(rets) + 1

\* C1: after the dispatch loop, with no unrecognized option, the exit code is
\* 0 if and only if every token resolved and every remote call returned a
\* status >= 0, and 1 otherwise.
C1_ExitCodeIffAllSucceeded ==
    (LoopDone /\ ~BadOpt) =>
        /\ exitCode \in {<<0>>, <<1>>}
        /\ exitCode = <<0>> <=>
              /\ \A k \in 1..Len(args) : Resolved(args[k])
              /\ \A k \in 1..Len(rets) : rets[k] >= 0

\* C2: if some token does not resolve, the exit code after the loop is 1,
\* whatever the remote calls of the other tokens returned.
C2_UnresolvedTokenFails ==
    (LoopDone /\ \E k \in 1..Len(args) : ~Resolved(args[k])) => exitCode = <<1>>

\* C3: no short-circuiting.  At every point of the loop the remote calls
\* issued are exactly those of the resolved tokens reached so far, one each
\* and in token order, the error channel holds exactly one "no such command"
\* line per unresolved token handled so far, and Main returns only after the
\* last token.
C3_NoShortCircuit ==
    setParameters = "ok" =>
        LET handled == i - 1
            reached == IF pc = "execute" THEN i ELSE i - 1
        IN  /\ [k \in 1..Len(calls) |-> calls[k].arg] = ResolvedIdx(reached)
            /\ cerr = [k \in 1..Len(UnresolvedIdx(handled)) |->
                          Concat(<<StrNoSuchCommand, args[UnresolvedIdx(handled)[k]], StrNL>>)]
            /\ Len(rets) = Len(ResolvedIdx(handled))
            /\ pc = "done" => handled = Len(args)

\* C3 witness: an unknown token was followed by a resolved one whose call
\* was made all the same.
C3_Witness ==
    /\ LoopDone
    /\ Len(args) = 2
    /\ ~Resolved(args[1])
    /\ Resolved(args[2])
    /\ Len(calls) = 1
    /\ Len(cerr) = 1

\* C4: once a remote call has returned a negative status the failure mark
\* stays set, and the exit code is 1 whatever the other calls returned.
C4_RemoteFailureFails ==
    (\E k \in 1..Len(rets) : rets[k] < 0) =>
        /\ theRetCode = 1
        /\ pc = "done" => exitCode = <<1>>

\* C4 witness: a failed call followed by a successful one, exit code 1.
C4_Witness ==
    /\ LoopDone
    /\ Len(rets) = 2
    /\ rets[1] < 0
    /\ rets[2] >= 0
    /\ ~BadOpt
    /\ exitCode = <<1>>

\* C5: with an unrecognized option the run is aborted: SetParameters is
\* never called, no remote call is made, and the exit code is 1.
C5_UnrecognizedOptionAborts ==
    BadOpt =>
        /\ setParameters = "none"
        /\ calls = <<>>
        /\ pc = "done" => exitCode = <<1>>

C7_UsageNoRemoteCall ==
    (pc # "getopt" /\ (theHelpFlag \/ theServerPtr = NULL \/ thePort < 0)) =>
        /\ pc \in {"parsed", "done"}
        /\ setParameters = "none"
        /\ logLevel = "none"
        /\ maxContentLength = 0
        /\ calls = <<>>
        /\ rets = <<>>

\* C7 witness: a negative port alone sent Main down the usage path, with
\* command tokens on the command line.
C7_Witness ==
    /\ pc = "done"
    /\ ~theHelpFlag
    /\ theServerPtr # NULL
    /\ thePort < 0
    /\ Len(args) > 0
    /\ Resolved(args[1])
    /\ calls = <<>>

\* C8: a failed SetParameters ends the run with exit code 1, no remote call
\* and no output for any token; a remote call is made only after
\* SetParameters succeeded.
C8_SetupFailureAborts ==
    /\ setParameters = "failed" =>
          /\ pc = "done"
          /\ exitCode = <<1>>
          /\ calls = <<>>
          /\ cout = <<>>
          /\ cerr = <<>>
          /\ log = <<>>
    /\ calls # <<>> => setParameters = "ok"

\* C8 witness: SetParameters failed with a resolvable token waiting.
C8_Witness ==
    /\ setParameters = "failed"
    /\ pc = "done"
    /\ Len(args) > 0
    /\ Resolved(args[1])
    /\ ~BadOpt

C10_ContentPassthrough ==
    [][(IsExecuteReturn /\ Last(rets') >= 0 /\ theOp'.contentLength > 0) =>
          /\ Len(cout') = Len(cout) + 1
          /\ SubSeq(cout', 1, Len(cout)) = cout
          /\ Len(Last(cout')) = theOp'.contentLength
          /\ \A k \in 1..theOp'.contentLength : Last(cout')[k] = theOp'.contentBuf[k]
          /\ cerr' = cerr
          /\ log' = log]_vars

\* C10 witness: two chars of a three char buffer were asked for and "ab"
\* is the last thing on standard output.
C10_Witness ==
    /\ pc = "loop"
    /\ rets # <<>>
    /\ Last(rets) >= 0
    /\ theOp.contentLength = 2
    /\ Len(theOp.contentBuf) = 3
    /\ cout # <<>>
    /\ Last(cout) = <<97, 98>>

\* C11: on the usage path the banner and the whole listing go to one
\* channel: standard output when help was requested, the error channel
\* otherwise, and then nothing is written to standard output.
C11_UsageOneChannel ==
    UsageDone =>
        LET text == <<Concat(<<StrUsage, ProgName, StrUsageTail>>)>>
                        \o CmdHelp(sOps, sMaxCmdNameLen, NULL).out
        IN  IF theHelpFlag
            THEN cout = text /\ cerr = <<>>
            ELSE cerr = text /\ cout = <<>>

\* sub occurs in s as a run of consecutive chars
Contains(s, sub) ==
    \E k \in 0..(Len(s) - Len(sub)) : SubSeq(s, k + 1, k + Len(sub)) = sub

\* C12: a call that returns a negative status logs exactly one error
\* message, and that message contains both the status message of the op and
\* the text ErrorCodeToStr gives for the returned status.
C12_ErrorMessageHasBoth ==
    [][(IsExecuteReturn /\ Last(rets') < 0) =>
          /\ Len(log') = Len(log) + 1
          /\ SubSeq(log', 1, Len(log)) = log
          /\ Contains(Last(log'), theOp'.statusMsg)
          /\ Contains(Last(log'), ErrorCodeToStr(Last(rets')))
          /\ ErrorCodeToStr(Last(rets')) # <<>>]_vars

\* C12 witness: status -5 with message "boom" was logged as
\* "boom error: Input/output error".
C12_Witness ==
    /\ pc = "loop"
    /\ rets # <<>>
    /\ Last(rets) = 0 - 5
    /\ theOp.statusMsg = <<98, 111, 111, 109>>
    /\ log # <<>>
    /\ Last(log) = <<98, 111, 111, 109, 32, 101, 114, 114, 111, 114, 58, 32, 73, 110, 112, 117, 116, 47, 111, 117, 116, 112, 117, 116, 32, 101, 114, 114, 111, 114>>

\* a is b up to the case of its ASCII letters
IsCaseVariant(a, b) ==
    /\ Len(a) = Len(b)
    /\ \A k \in 1..Len(a) :
          \/ a[k] = b[k]
          \/ /\ a[k] >= 65 /\ a[k] <= 90
             /\ b[k] = a[k] + 32
          \/ /\ a[k] >= 97 /\ a[k] <= 122
             /\ b[k] = a[k] - 32

\* the catalog entries the token is a case variant of
CatalogMatches(token) ==
    { k \in 1..Len(KfsForEachMetaOpId) : IsCaseVariant(token, KfsForEachMetaOpId[k].name) }

\* C13: the lookup is case-insensitive.  Once the token has been looked up,
\* a token that is a case variant of a catalog name has resolved to the one
\* registry entry of that name (same entry for all variants), and any other
\* token has not resolved.
C13_LookupCaseInsensitive ==
    (setParameters = "ok" /\ Len(args) = 1 /\ (pc = "execute" \/ i > 1)) =>
        LET token == args[1]
        IN  IF CatalogMatches(token) # {}
            THEN /\ Cardinality(CatalogMatches(token)) = 1
                 /\ \A k \in CatalogMatches(token) :
                       LET e == KfsForEachMetaOpId[k]
                       IN  /\ Len(calls) = 1
                           /\ calls[1].name = e.name
                           /\ calls[1].op = CmdMeta(e.name)
                           /\ theOp.name = e.name
                           /\ LowerCased(e.name) \in DOMAIN sOps
                           /\ sOps[LowerCased(e.name)].comment = e.comment
                 /\ cerr = <<>>
            ELSE /\ calls = <<>>
                 /\ Len(cerr) = 1

\* C13 witness: "OpEn_fIlEs" resolved to the entry OPEN_FILES.
C13_Witness ==
    /\ pc = "execute"
    /\ args = << <<79, 112, 69, 110, 95, 102, 73, 108, 69, 115>> >>
    /\ Len(calls) = 1
    /\ calls[1].name = <<79, 80, 69, 78, 95, 70, 73, 76, 69, 83>>

\* the normalized keys of the fixed catalog: "check_leases",
\* "recompute_dirsize", "dump_chunktoservermap",
\* "dump_chunkreplicationcandidates", "open_files",
\* "get_chunk_servers_counters", "get_chunk_server_dirs_counters",
\* "get_request_counters"
CatalogKeys ==
    << <<99, 104, 101, 99, 107, 95, 108, 101, 97, 115, 101, 115>>,
       <<114, 101, 99, 111, 109, 112, 117, 116, 101, 95, 100, 105, 114, 115, 105, 122, 101>>,
       <<100, 117, 109, 112, 95, 99, 104, 117, 110, 107, 116, 111, 115, 101, 114, 118, 101, 114, 109, 97, 112>>,
       <<100, 117, 109, 112, 95, 99, 104, 117, 110, 107, 114, 101, 112, 108, 105, 99, 97, 116, 105, 111, 110, 99, 97, 110, 100, 105, 100, 97, 116, 101, 115>>,
       <<111, 112, 101, 110, 95, 102, 105, 108, 101, 115>>,
       <<103, 101, 116, 95, 99, 104, 117, 110, 107, 95, 115, 101, 114, 118, 101, 114, 115, 95, 99, 111, 117, 110, 116, 101, 114, 115>>,
       <<103, 101, 116, 95, 99, 104, 117, 110, 107, 95, 115, 101, 114, 118, 101, 114, 95, 100, 105, 114, 115, 95, 99, 111, 117, 110, 116, 101, 114, 115>>,
       <<103, 101, 116, 95, 114, 101, 113, 117, 101, 115, 116, 95, 99, 111, 117, 110, 116, 101, 114, 115>> >>

\* C14: in every reachable state the registry is the fixed catalog: exactly
\* 8 entries, under the 8 pairwise distinct normalized keys, each holding the
\* name, opcode and description of its catalog line, with pairwise distinct
\* opcodes; the width kept for the listing is that of the longest key; and
\* one more call of MakeMetaAdminOpsMap would leave all of it as it is.
C14_RegistryIsCatalog ==
    /\ Cardinality(DOMAIN sOps) = 8
    /\ DOMAIN sOps = { CatalogKeys[k] : k \in 1..8 }
    /\ \A j, k \in 1..8 : j # k => CatalogKeys[j] # CatalogKeys[k]
    /\ \A k \in 1..8 :
          /\ sOps[CatalogKeys[k]].name = KfsForEachMetaOpId[k].name
          /\ sOps[CatalogKeys[k]].comment = KfsForEachMetaOpId[k].comment
          /\ sOps[CatalogKeys[k]].op = CmdMeta(KfsForEachMetaOpId[k].name)
    /\ \A a, b \in DOMAIN sOps : a # b => sOps[a].op # sOps[b].op
    /\ sMaxCmdNameLen = 31
    /\ \A k \in DOMAIN sOps : Len(k) <= sMaxCmdNameLen
    /\ MakeMetaAdminOpsMap([ops |-> sOps, maxLen |-> sMaxCmdNameLen])
          = [ops |-> sOps, maxLen |-> sMaxCmdNameLen]

\* C14 witness: a run that looked up a known and an unknown token and
\* executed a command, the registry still holding 8 entries.
C14_Witness ==
    /\ LoopDone
    /\ Len(calls) = 1
    /\ Len(rets) = 1
    /\ Len(cerr) = 1
    /\ Cardinality(DOMAIN sOps) = 8

\* C15: with an unrecognized option the exit code is 1 on every path: the
\* usage branch, a failed SetParameters, and the end of the loop even when
\* every token resolved and every call succeeded.
C15_UnrecognizedOptionExitsOne ==
    (BadOpt /\ pc = "done") => exitCode = <<1>>

\* C15 witness: an unrecognized option, then a run in which the one token
\* resolved and its call succeeded, exit code 1.
C15_Witness ==
    /\ BadOpt
    /\ LoopDone
    /\ Len(args) = 1
    /\ Len(rets) = 1
    /\ rets[1] >= 0
    /\ cerr = <<>>
    /\ exitCode = <<1>>

\* C16: every remote call carries the opcode and the display name of the
\* catalog entry whose normalized key is the lower-cased token it was made
\* for, and of no other entry.
C16_OpRecordOfResolvedEntry ==
    \A c \in 1..Len(calls) :
        LET token == args[calls[c].arg]
        IN  /\ \E k \in 1..8 : CatalogKeys[k] = LowerCased(token)
            /\ \A k \in 1..8 :
                  IF CatalogKeys[k] = LowerCased(token)
                  THEN /\ calls[c].name = KfsForEachMetaOpId[k].name
                       /\ calls[c].op = CmdMeta(KfsForEachMetaOpId[k].name)
                  ELSE /\ calls[c].name # KfsForEachMetaOpId[k].name
                       /\ calls[c].op # CmdMeta(KfsForEachMetaOpId[k].name)

\* C16 witness: the call made for "Check_Leases" carries CHECK_LEASES and
\* its opcode.
C16_Witness ==
    /\ pc = "execute"
    /\ args[i] = <<67, 104, 101, 99, 107, 95, 76, 101, 97, 115, 101, 115>>
    /\ Last(calls).name = <<67, 72, 69, 67, 75, 95, 76, 69, 65, 83, 69, 83>>
    /\ Last(calls).op = <<"CMD_META", <<67, 72, 69, 67, 75, 95, 76, 69, 65, 83, 69, 83>>>>
    /\ theOp.name = <<67, 72, 69, 67, 75, 95, 76, 69, 65, 83, 69, 83>>

\* the number of chunks written so far to the three channels
Events == Len(cout) + Len(cerr) + Len(log)

\* C17: execution is strictly sequential.  At most one remote call is
\* outstanding, and only while Main waits in Execute; calls are made in token
\* order; and a call for a token is made only when every earlier token has
\* had its output or error event, so that during the loop the events
\* emitted are exactly those of the tokens before the current one.
C17_StrictlySequential ==
    /\ Len(calls) - Len(rets) = (IF pc = "execute" THEN 1 ELSE 0)
    /\ \A c \in 1..(Len(calls) - 1) : calls[c].arg < calls[c + 1].arg
    /\ setParameters = "ok" =>
          /\ Events = i - 1
          /\ \A c \in 1..Len(calls) : calls[c].arg <= Events + 1
          /\ pc = "execute" => Last(calls).arg = i

\* C17 witness: the call for the second token is outstanding and the one
\* event of the first token, whose call has returned, is out.
C17_Witness ==
    /\ pc = "execute"
    /\ i = 2
    /\ Len(calls) = 2
    /\ Len(rets) = 1
    /\ Len(cout) + Len(log) = 1

\* C18: handling a token adds exactly one chunk to exactly one channel: a
\* "no such command" line on the error channel for an unresolved token, one
\* logged error for a call that returned a negative status (and then nothing
\* on standard output, even with contentLength > 0), one write to standard
\* output otherwise; no other step of the loop writes anything.
C18_OneEventPerToken ==
    [][(pc \in {"loop", "execute"}) =>
          IF i' = i + 1
          THEN IF ~Resolved(args[i])
               THEN /\ Len(cerr') = Len(cerr) + 1
                    /\ Contains(Last(cerr'), StrNoSuchCommand)
                    /\ cout' = cout
                    /\ log' = log
               ELSE IF Last(rets') < 0
               THEN /\ Len(log') = Len(log) + 1
                    /\ cout' = cout
                    /\ cerr' = cerr
               ELSE /\ Len(cout') = Len(cout) + 1
                    /\ Last(cout') # <<>>
                    /\ cerr' = cerr
                    /\ log' = log
          ELSE /\ i' = i
               /\ cout' = cout
               /\ cerr' = cerr
               /\ log' = log]_vars

\* C18 witness: a call failed with contentLength 2 and standard output is
\* still empty, the error being logged.
C18_Witness ==
    /\ pc = "loop"
    /\ rets # <<>>
    /\ Last(rets) < 0
    /\ theOp.contentLength = 2
    /\ cout = <<>>
    /\ cerr = <<>>
    /\ Len(log) = Len(rets)

\* C19: with every remote call returning, a run that passed the invocation
\* and setup checks leads to the return of Main with an exit code, every
\* token having been handled exactly once: one call per resolved token, in
\* order, all returned, and one message per unresolved token.
C19_EveryTokenThenExit ==
    (setParameters = "ok") ~>
        /\ pc = "done"
        /\ exitCode \in {<<0>>, <<1>>}
        /\ i = Len(args) + 1
        /\ [c \in 1..Len(calls) |-> calls[c].arg] = ResolvedIdx(Len(args))
        /\ Len(rets) = Len(calls)
        /\ Len(cerr) = Len(UnresolvedIdx(Len(args)))
        /\ Events = Len(args)

\* C19 witness: Main returned after two tokens, an unknown one and one
\* whose call failed.
C19_Witness ==
    /\ LoopDone
    /\ Len(args) = 2
    /\ ~Resolved(args[1])
    /\ Len(rets) = 1
    /\ rets[1] < 0
    /\ i = 3
    /\ exitCode = <<1>>

====
